---- MODULE Spec2Model ----
(***************************************************************************)
(* A model of the RSA primitives of rsa.py and largeprimes.py: modular     *)
(* arithmetic, the Miller-Rabin test, the prime search, key generation     *)
(* and the message codec.                                                  *)
(*                                                                         *)
(* Python integers are exact.  TLC's integers are 32-bit, so every bound   *)
(* below keeps the values under 2^31 and MulMod computes (x*y) % N without *)
(* forming a product that large.                                           *)
(*                                                                         *)
(* A function that draws random values (secrets.randbelow, randbits) is    *)
(* modelled by the SET of the values it can return: mr_test, nextprime,    *)
(* safeprime and e_mmi's retry are operators yielding every outcome some   *)
(* sequence of draws produces.                                             *)
(***************************************************************************)
EXTENDS Integers, Sequences, FiniteSets, TLC

VARIABLES
    pc,         \* the position of the running call
    loc,        \* the arguments and locals of the running call (a record)
    ret,        \* << >> while running or for Python's None, <<v>> for a return of v
    key,        \* the key pair keypair returned, << >> before
    plaintext,  \* the string given to encrypt: a sequence of code points
    c           \* encrypt's return: << >> for None, <<ciphertext>> otherwise

vars == <<pc, loc, ret, key, plaintext, c>>

None == << >>

\* ------------------------------------------------------------------ bounds

MaxBase == 5
MaxExp == 5
MaxMod == 5
MaxN == 60
MaxK == 3
MaxStart == 60
MaxHint == 20
MaxTotient == 40
MaxDepth == 3
MaxLen == 2

\* ------------------------------------------------------------------ inputs

KeyBits == {6, 8}
KeyHints == {3, 4, 17, 65537}
SampleDraws == {4099, 8191}
SessionBits == {26}
SessionHints == {65537}
Chars == {0, 10, 65, 104, 105, 255}
Moduli == {1, 255, 32768, 40000, 65535, 65536, 65537, 16777215, 16777216,
           33574909, 1073741823}
Exponents == {3, 65537}

\* --------------------------------------------------------------- constants

EmmiRounds == 32
KeypairRounds == 32

\* -------------------------------------------------------------- arithmetic

abs(x) == IF x < 0 THEN -x ELSE x

\* (v * 2) % N for 0 <= v < N < 2^30
Dbl(v, N) == (v + v) % N

Shl5(v, N) == Dbl(Dbl(Dbl(Dbl(Dbl(v, N), N), N), N), N)

\* (v * 2^15) % N for 0 <= v < N < 2^30
Shl15(v, N) == Shl5(Shl5(Shl5(v, N), N), N)

\* Python's exact (x * y) % N for x, y >= 0 and 0 < N < 2^30: the product of
\* the 15-bit halves of x % N and y % N, no intermediate value reaching 2^31
MulMod(x, y, N) ==
    IF x < 46341 /\ y < 46341 THEN (x * y) % N
    ELSE LET xh == (x % N) \div 32768
             xl == (x % N) % 32768
             yh == (y % N) \div 32768
             yl == (y % N) % 32768
             hh == Shl15(Shl15((xh * yh) % N, N), N)
             mid == Shl15((xh * yl + xl * yh) % N, N)
         IN  (((hh + mid) % N) + ((xl * yl) % N)) % N

RECURSIVE gcd(_, _)
gcd(a, b) == IF b = 0 THEN a ELSE gcd(b, a % b)

lcm(a, b) == (a * b) \div gcd(a, b)

RECURSIVE recurse(_, _, _, _, _, _)
recurse(r, s, t, r1, s1, t1) ==
    IF r1 = 0 THEN <<r, s, t>>
    ELSE LET q == r \div r1
         IN  recurse(r1, s1, t1, r - q * r1, s - q * s1, t - q * t1)

\* The coefficients started the wrong way round
egcd_swapped(a, b) == recurse(a, 0, 1, b, 1, 0)

egcd(a, b) == recurse(a, 1, 0, b, 0, 1)

\* ------------------------------------------------------------------ powmod

\* powmod's while loop on its variables v = [r, beta, alpha]
RECURSIVE powmod_loop(_, _)
powmod_loop(v, N) ==
    IF v.alpha > 0
    THEN powmod_loop([r |-> IF v.alpha % 2 = 1 THEN MulMod(v.r, v.beta, N)
                            ELSE v.r,
                      alpha |-> v.alpha \div 2,
                      beta |-> MulMod(v.beta, v.beta, N)], N)
    ELSE v.r

powmod(b, a, N) == powmod_loop([r |-> 1, beta |-> b, alpha |-> a], N)

\* A call of powmod on arguments drawn in InitPowmod
PowmodCall ==
    /\ pc = "powmod"
    /\ ret' = <<powmod(loc.b, loc.a, loc.N)>>
    /\ pc' = "done"
    /\ UNCHANGED <<loc, key, plaintext, c>>

InitPowmod ==
    /\ pc = "powmod"
    /\ loc \in [b : 0..MaxBase, a : 0..MaxExp, N : 1..MaxMod]
    /\ ret = None
    /\ key = None
    /\ plaintext = << >>
    /\ c = None

NextPowmod == PowmodCall

SpecPowmod == InitPowmod /\ [][NextPowmod]_vars

\* ------------------------------------------------------------ Miller-Rabin

\* secrets.randbelow(n): any integer of [0, n)
randbelow(n) == 0..(n - 1)

\* secrets.randbits(k): any integer of [0, 2^k)
randbits(k) == 0..(2^k - 1)

\* A draw one wider, reaching N
Witnesses_wide(N) == {x + 2 : x \in randbelow(N - 1)}

\* The values b = secrets.randbelow(N-2)+2 can take
Witnesses(N) == {x + 2 : x \in randbelow(N - 2)}

\* mr_test's loop finding <<q, t>> with N - 1 = 2^t * q, q odd
RECURSIVE Halve(_, _)
Halve(q, t) == IF q % 2 = 0 THEN Halve(q \div 2, t + 1) ELSE <<q, t>>

Decompose(N) == Halve(N - 1, 0)

\* A round that passes only when the first root is 1
mr_single_test_first(N, q, t, b) == powmod(b, q, N) = 1

\* One round, for the witness b it drew
mr_single_test(N, q, t, b) ==
    LET roots[i \in 0..t] ==
            IF i = 0 THEN powmod(b, q, N)
            ELSE MulMod(roots[i - 1], roots[i - 1], N)
    IN  IF \A i \in 0..t : roots[i] # 1 THEN FALSE
        ELSE LET e == CHOOSE i \in 0..t :
                          /\ roots[i] = 1
                          /\ \A j \in 0..(i - 1) : roots[j] # 1
             IN  e = 0 \/ (e > 0 /\ roots[e - 1] = N - 1)

\* The returns of k rounds whose single returns are drawn from outs
RECURSIVE mr_rounds(_, _)
mr_rounds(outs, k) ==
    IF k = 0 THEN {TRUE}
    ELSE (IF FALSE \in outs THEN {FALSE} ELSE {})
         \cup (IF TRUE \in outs THEN mr_rounds(outs, k - 1) ELSE {})

\* Every value mr_test(N, k) can return
mr_test(N, k) ==
    IF N = 2 THEN {TRUE}
    ELSE IF N = 1 \/ N % 2 = 0 THEN {FALSE}
    ELSE LET qt == Decompose(N)
             outs == {mr_single_test(N, qt[1], qt[2], b) : b \in Witnesses(N)}
         IN  mr_rounds(outs, k)

\* Every value sg_test(N, k) can return
sg_test(N, k) ==
    (IF FALSE \in mr_test(N, k) THEN {FALSE} ELSE {})
    \cup (IF TRUE \in mr_test(N, k) THEN mr_test(2 * N + 1, k) ELSE {})

\* nextprime's while loop from candidate p: every value it can end on
RECURSIVE nextprime_scan(_, _)
nextprime_scan(p, K) ==
    (IF TRUE \in mr_test(p, K) THEN {p} ELSE {})
    \cup (IF FALSE \in mr_test(p, K) THEN nextprime_scan(p + 1, K) ELSE {})

\* A scan that starts after n
nextprime_after(n, K) == nextprime_scan(n + 1, K)

\* Every value nextprime(n, K) can return
nextprime(n, K) == nextprime_scan(n, K)

\* safeprime's while loop from candidate p: every value it can return
RECURSIVE safeprime_scan(_, _)
safeprime_scan(p, K) ==
    (IF TRUE \in sg_test(p, K) THEN {2 * p + 1} ELSE {})
    \cup (IF FALSE \in sg_test(p, K) THEN safeprime_scan(p + 1, K) ELSE {})

\* Every value safeprime(n, K) can return
safeprime(n, K) == safeprime_scan(n, K)

\* mr_test(N, k), a round at a time, the witness of the last round kept in loc.b
MrEasy ==
    /\ pc = "mr_test"
    /\ IF loc.N = 2 THEN
            /\ ret' = <<TRUE>>
            /\ pc' = "done"
            /\ loc' = loc
       ELSE IF loc.N = 1 \/ loc.N % 2 = 0 THEN
            /\ ret' = <<FALSE>>
            /\ pc' = "done"
            /\ loc' = loc
       ELSE /\ loc' = [loc EXCEPT !.q = Decompose(loc.N)[1],
                                  !.t = Decompose(loc.N)[2]]
            /\ pc' = "mr_round"
            /\ ret' = ret
    /\ UNCHANGED <<key, plaintext, c>>

MrRound ==
    /\ pc = "mr_round"
    /\ \E b \in Witnesses(loc.N) :
        IF ~mr_single_test(loc.N, loc.q, loc.t, b) THEN
            /\ loc' = [loc EXCEPT !.b = b]
            /\ ret' = <<FALSE>>
            /\ pc' = "done"
        ELSE
            /\ loc' = [loc EXCEPT !.b = b, !.i = loc.i + 1]
            /\ ret' = IF loc.i + 1 = loc.k THEN <<TRUE>> ELSE ret
            /\ pc' = IF loc.i + 1 = loc.k THEN "done" ELSE "mr_round"
    /\ UNCHANGED <<key, plaintext, c>>

InitMR ==
    /\ pc = "mr_test"
    /\ loc \in [N : 1..MaxN, k : 1..MaxK, q : {0}, t : {0}, i : {0}, b : {0}]
    /\ ret = None
    /\ key = None
    /\ plaintext = << >>
    /\ c = None

NextMR == MrEasy \/ MrRound

SpecMR == InitMR /\ [][NextMR]_vars

\* A call of nextprime on arguments drawn in InitNextprime
NextprimeCall ==
    /\ pc = "nextprime"
    /\ \E p \in nextprime(loc.n, loc.K) : ret' = <<p>>
    /\ pc' = "done"
    /\ UNCHANGED <<loc, key, plaintext, c>>

InitNextprime ==
    /\ pc = "nextprime"
    /\ loc \in [n : 1..MaxStart, K : 1..MaxK]
    /\ ret = None
    /\ key = None
    /\ plaintext = << >>
    /\ c = None

NextNextprime == NextprimeCall

SpecNextprime == InitNextprime /\ [][NextNextprime]_vars

\* ---------------------------------------------------------- key generation

\* One call of e_mmi(e, N); the recursive call is the next step
EmmiStep ==
    /\ pc = "e_mmi"
    /\ loc.depth < MaxDepth
    /\ LET g == egcd(loc.e, loc.N)[1]
           candidate == egcd(loc.e, loc.N)[2]
       IN  IF g = 1 THEN
                /\ ret' = <<loc.e, IF candidate < 0 THEN loc.N + candidate
                                   ELSE candidate>>
                /\ pc' = "e_mmi_return"
                /\ loc' = loc
           ELSE /\ \E e \in nextprime(loc.e, EmmiRounds) :
                        loc' = [loc EXCEPT !.e = e, !.depth = loc.depth + 1]
                /\ UNCHANGED <<ret, pc>>
    /\ UNCHANGED <<key, plaintext, c>>

InitEmmi ==
    /\ pc = "e_mmi"
    /\ loc \in [e : 2..MaxHint, N : 1..MaxTotient, depth : {0}]
    /\ ret = None
    /\ key = None
    /\ plaintext = << >>
    /\ c = None

NextEmmi == EmmiStep

SpecEmmi == InitEmmi /\ [][NextEmmi]_vars

\* The least s with s * s >= x, between lo and hi
RECURSIVE CeilSqrtIn(_, _, _)
CeilSqrtIn(x, lo, hi) ==
    IF lo >= hi THEN lo
    ELSE LET mid == (lo + hi) \div 2
         IN  IF mid * mid >= x THEN CeilSqrtIn(x, lo, mid)
             ELSE CeilSqrtIn(x, mid + 1, hi)

\* The guard without its factor 2: abs(p-q) < n**(1/4)
TooClose_half(p, q, n) == abs(p - q) * abs(p - q) < CeilSqrtIn(n, 0, 46340)

\* abs(p-q) < 2*n**(1/4), that is (p-q)^2 < sqrt(16*n), for 16*n < 2^31
TooClose(p, q, n) == abs(p - q) * abs(p - q) < CeilSqrtIn(16 * n, 0, 46340)

\* genprime of keypair
genprime(safe, n, K) == IF safe THEN safeprime(n, K) ELSE nextprime(n, K)

\* The initializers the model follows: all of randbits' range, or the sample
\* points when the range holds them
Draws(range) == IF SampleDraws \subseteq range THEN SampleDraws ELSE range

\* One call of gen_pqn.  Both initializers are drawn from the same range and
\* turned into primes independently, so p and q each range over primes.  A
\* pair too close is kept in loc until the recursive call, the next step,
\* replaces it; an accepted pair goes on to the totient.
GenPqn ==
    /\ pc = "gen_pqn"
    /\ LET initializers == Draws(randbits(loc.k - (IF loc.safe THEN 1 ELSE 0)))
           primes == UNION {genprime(loc.safe, i, KeypairRounds) : i \in initializers}
       IN  \E p \in primes, q \in primes :
             LET n == p * q
             IN  IF TooClose(p, q, n) THEN
                     /\ loc' = [loc EXCEPT !.p = p, !.q = q, !.n = n]
                     /\ pc' = pc
                 ELSE
                     /\ loc' = [loc EXCEPT !.p = p, !.q = q, !.n = n,
                                           !.totient = lcm(p - 1, q - 1),
                                           !.N = lcm(p - 1, q - 1)]
                     /\ pc' = "e_mmi"
    /\ UNCHANGED <<ret, key, plaintext, c>>

\* keypair's return once e_mmi has returned (e, d)
KeypairReturn ==
    /\ pc = "e_mmi_return"
    /\ key' = <<[public |-> <<loc.n, ret[1]>>, private |-> ret[2]]>>
    /\ ret' = None
    /\ pc' = "keypair_return"
    /\ UNCHANGED <<loc, plaintext, c>>

InitKeypair(Bits, Hints, Safes) ==
    /\ pc = "gen_pqn"
    /\ \E b \in Bits, e \in Hints, safe \in Safes :
         loc = [b |-> b, e |-> e, safe |-> safe, k |-> b \div 2,
                p |-> 0, q |-> 0, n |-> 0, totient |-> 0, N |-> 0,
                depth |-> 0]
    /\ ret = None
    /\ key = None
    /\ plaintext = << >>
    /\ c = None

NextKeypair == GenPqn \/ EmmiStep \/ KeypairReturn

SpecKeypair == InitKeypair(KeyBits, KeyHints, BOOLEAN) /\ [][NextKeypair]_vars

\* ------------------------------------------------------------------- codec

\* int(log2(n)) for n >= 1
RECURSIVE IntLog2(_)
IntLog2(n) == IF n < 2 THEN 0 ELSE 1 + IntLog2(n \div 2)

max_bytes(n) == IntLog2(n) \div 8

\* format(x, 'x') and hex(x)[2:]: the hexadecimal digits of x, no leading zero
RECURSIVE Hex(_)
Hex(x) == IF x < 16 THEN <<x>> ELSE Append(Hex(x \div 16), x % 16)

\* ''.join(format(v, 'x') for v in values)
RECURSIVE JoinHex(_)
JoinHex(values) ==
    IF values = << >> THEN << >>
    ELSE Hex(Head(values)) \o JoinHex(Tail(values))

\* int(digits, 16)
RECURSIVE IntHex(_)
IntHex(digits) ==
    IF digits = << >> THEN 0
    ELSE 16 * IntHex(SubSeq(digits, 1, Len(digits) - 1)) + digits[Len(digits)]

\* The check with > for >=
TooLarge_gt(text, n) == Len(text) > max_bytes(n) - 1

\* The check with + 1 for - 1
TooLarge_plus(text, n) == Len(text) >= max_bytes(n) + 1

\* encrypt's check of the length
TooLarge(text, n) == Len(text) >= max_bytes(n) - 1

\* range(max_bytes - len(plaintext) - 2): the number of junk bytes
JunkCount(text, n) ==
    IF max_bytes(n) - Len(text) - 2 > 0 THEN max_bytes(n) - Len(text) - 2 ELSE 0

\* The integer m encrypt builds from the text and the junk bytes it drew
Encode(text, junk) == IntHex(JoinHex(text) \o <<0, 0>> \o JoinHex(junk))

\* decrypt's unpadding of m
Decode(m) ==
    LET m_hex == Hex(m)
        byte_pad == [i \in 1..(Len(m_hex) \div 2) |->
                        <<m_hex[2 * i - 1], m_hex[2 * i]>>]
        zeros == {i \in 1..Len(byte_pad) : byte_pad[i] = <<0, 0>>}
        byte_unpad ==
            IF zeros # {}
            THEN SubSeq(byte_pad, 1, (CHOOSE i \in zeros : \A j \in zeros : i <= j) - 1)
            ELSE byte_pad
    IN  [i \in 1..Len(byte_unpad) |-> 16 * byte_unpad[i][1] + byte_unpad[i][2]]

decrypt(ciphertext, k) ==
    Decode(powmod(ciphertext, k.private, k.public[1]))

\* The strings given to encrypt
Plaintexts == UNION {[1..len -> Chars] : len \in 0..MaxLen}

\* A call of encrypt(plaintext, public); loc.m keeps the integer it encoded
Encrypt ==
    /\ pc = "encrypt"
    /\ \E text \in Plaintexts :
        LET n == loc.public[1]
            e == loc.public[2]
        IN  /\ plaintext' = text
            /\ IF TooLarge(text, n) THEN
                    /\ c' = None
                    /\ pc' = "too_large"
                    /\ loc' = loc
               ELSE \E junk \in [1..JunkCount(text, n) -> randbits(8)] :
                    /\ loc' = [loc EXCEPT !.m = Encode(text, junk)]
                    /\ c' = <<powmod(Encode(text, junk), e, n)>>
                    /\ pc' = "encrypted"
    /\ UNCHANGED <<ret, key>>

\* A call of decrypt(c, key) on what encrypt returned
Decrypt ==
    /\ pc = "encrypted"
    /\ key # None
    /\ ret' = <<decrypt(c[1], key[1])>>
    /\ pc' = "decrypted"
    /\ UNCHANGED <<loc, key, plaintext, c>>

InitCodec ==
    /\ pc = "encrypt"
    /\ \E n \in Moduli, e \in Exponents : loc = [public |-> <<n, e>>, m |-> 0]
    /\ ret = None
    /\ key = None
    /\ plaintext = << >>
    /\ c = None

NextCodec == Encrypt

SpecCodec == InitCodec /\ [][NextCodec]_vars

\* The caller hands the public half of the key it got to encrypt
Session ==
    /\ pc = "keypair_return"
    /\ loc' = [public |-> key[1].public, m |-> 0, p |-> loc.p, q |-> loc.q]
    /\ pc' = "encrypt"
    /\ UNCHANGED <<ret, key, plaintext, c>>

NextRSA == GenPqn \/ EmmiStep \/ KeypairReturn \/ Session \/ Encrypt \/ Decrypt

SpecRSA == InitKeypair(SessionBits, SessionHints, {FALSE}) /\ [][NextRSA]_vars

\* ------------------------------------------------------- reference notions

RECURSIVE Pow(_, _)
Pow(x, n) == IF n = 0 THEN 1 ELSE x * Pow(x, n - 1)

IsPrime(x) == x >= 2 /\ \A d \in 2..(x - 1) : d * d > x \/ x % d # 0

\* ------------------------------------------------------------------ claims

\* C8: for base >= 0, exponent >= 0 and modulus > 0, powmod returns exactly
\* base^exponent mod modulus, a value in [0, modulus).
C8_PowmodExact ==
    pc = "done" =>
        /\ ret = <<Pow(loc.b, loc.a) % loc.N>>
        /\ ret[1] \in 0..(loc.N - 1)

\* The smallest prime p >= n
RECURSIVE PrimeFrom(_)
PrimeFrom(n) == IF IsPrime(n) THEN n ELSE PrimeFrom(n + 1)

C9_WitnessBelowNminus1 ==
    (loc.N >= 5 /\ loc.N % 2 = 1 /\ loc.b # 0) => loc.b \in 2..(loc.N - 2)

\* C9 as amended: in a round on an odd N >= 5 the witness lies in [2, N-1]:
\* 0 and 1 are never used, N-1 can be.
C9_WitnessRange ==
    (loc.N >= 5 /\ loc.N % 2 = 1 /\ loc.b # 0) => loc.b \in 2..(loc.N - 1)

\* C9's case: a round on an odd N >= 5 drew N-1
C9_Witness ==
    /\ loc.N >= 5
    /\ loc.N % 2 = 1
    /\ loc.b = loc.N - 1

\* C6 as stated: nextprime(n, K) returns the smallest prime p >= n whatever
\* witnesses are drawn; nextprime(10) = 11 and nextprime(14) = 17.
C6_SmallestPrime ==
    pc = "done" =>
        /\ ret = <<PrimeFrom(loc.n)>>
        /\ loc.n = 10 => ret = <<11>>
        /\ loc.n = 14 => ret = <<17>>

\* C6 as amended: nextprime(n, K) returns a p with n <= p <= the smallest
\* prime >= n; p is that prime or an odd composite all of whose K witnesses
\* passed; nextprime(10) = 11 and nextprime(14) is 15 or 17.
C6_AtMostSmallestPrime ==
    pc = "done" =>
        /\ ret[1] \in loc.n..PrimeFrom(loc.n)
        /\ ret[1] = PrimeFrom(loc.n) \/ ret[1] % 2 = 1
        /\ loc.n = 10 => ret = <<11>>
        /\ loc.n = 14 => ret[1] \in {15, 17}

\* C6's case: the scan passed over composites and returned the prime
C6_Witness ==
    /\ pc = "done"
    /\ loc.n = 14
    /\ ret = <<17>>

\* C2: when e is not invertible modulo the totient, the hint advances to a
\* prime strictly greater than the current hint before the attempt is
\* repeated (so that e_mmi comes to return a pair).
C2_HintAdvances ==
    [][(pc = "e_mmi" /\ pc' = "e_mmi") => loc'.e > loc.e]_vars

\* C3: a returned key pair has gcd(publicExponent, lambda) = 1,
\* publicExponent * privateExponent = 1 (mod lambda) and
\* 0 <= privateExponent < lambda, for lambda = lcm(p-1, q-1).
C3_ExponentsInverse ==
    key # None =>
        LET lambda == lcm(loc.p - 1, loc.q - 1)
            e == key[1].public[2]
            d == key[1].private
        IN  /\ \A x \in 2..lambda : ~(e % x = 0 /\ lambda % x = 0)
            /\ MulMod(e, d, lambda) = 1 % lambda
            /\ d \in 0..(lambda - 1)

\* C3's case: a key pair was returned whose inverse egcd gave negative, and
\* whose hint was replaced
C3_Witness ==
    /\ key # None
    /\ egcd(key[1].public[2], loc.totient)[2] < 0
    /\ loc.depth > 0

C1_RoundTrip ==
    pc = "decrypted" => ret = <<plaintext>>

\* The B with 256^B <= n < 256^(B+1), B <= 3
ByteLength(n) ==
    CHOOSE B \in 0..3 : (n \div Pow(256, B)) \in (IF B = 0 THEN 0 ELSE 1)..255

C10_EncodedBelowModulus ==
    pc = "encrypted" => loc.m \in 0..(loc.public[1] - 1)

\* C10's case: a one-character plaintext of code point 255 was encoded
C10_Witness ==
    /\ pc = "encrypted"
    /\ plaintext = <<255>>
    /\ loc.m = 65280

====
